---- MODULE Spec2Model ----
(***************************************************************************)
(* Model of the optical telemetry analyzer: the baseline estimator and the *)
(* deviation detector (anomaly.py), the temporal resampler and the numeric *)
(* coercion (clean.py), the gap detector (analyze.py), the CSV loader      *)
(* (ingest.py) and the pipeline run (main.py).                             *)
(*                                                                         *)
(* Conventions.  A table cell that pandas holds as NaN/NaT is the empty    *)
(* sequence <<>>; a present number v is <<v>>.  KPI values are integers in *)
(* hundredths of the KPI's unit (10.0 dB is 1000), chromatic dispersion is *)
(* in whole units.  A DataFrame is a record [columns, rows]; the rows of a *)
(* sample table are a sequence of functions from column name to cell.      *)
(***************************************************************************)
EXTENDS Integers, Sequences, FiniteSets, TLC

VARIABLES pc, df, baselines, osnr_min, recs, resampled, gaps, files, stages,
          raised

vars == <<pc, df, baselines, osnr_min, recs, resampled, gaps, files, stages,
          raised>>

----------------------------------------------------------------------------
(* Cells *)

NaN == <<>>

notna(x) == x # NaN

Num(v) == <<v>>

Val(x) == x[1]

Abs(x) == IF x < 0 THEN -x ELSE x

----------------------------------------------------------------------------
(* anomaly.py *)

DEFAULT_KPIS == <<"QFACTOR-AVG", "ESNR-AVG", "CDR", "PREFEC-AVG">>

STATS == <<"median", "mean", "std", "count">>

\* The flattened column name f"{c[0]}_{c[1]}" of anomaly.py:44, kept as the
\* pair it is built from (the map from pairs to names is one-to-one).
StatCol(k, stat) == <<k, stat>>

EmptyFrame == [columns |-> {}, rows |-> <<>>]

\* DataFrame.empty of a baseline table: no row or no column
BaselinesEmpty(b) == b.columns = {} \/ DOMAIN b.rows = {}

_find_present_kpis(d, candidates) ==
    SelectSeq(candidates, LAMBDA c : c \in d.columns)

Range(s) == {s[i] : i \in DOMAIN s}

RECURSIVE SumSeq(_)
SumSeq(s) == IF s = <<>> THEN 0 ELSE Head(s) + SumSeq(Tail(s))

RECURSIVE Insert(_, _)
Insert(x, s) ==
    IF s = <<>> THEN <<x>>
    ELSE IF x <= Head(s) THEN <<x>> \o s
    ELSE <<Head(s)>> \o Insert(x, Tail(s))

RECURSIVE Sort(_)
Sort(s) == IF s = <<>> THEN <<>> ELSE Insert(Head(s), Sort(Tail(s)))

\* The non-missing values of column k among the rows of group `span`, in row
\* order (the aggregations of pandas skip NaN).
GroupValues(d, span_key, span, k) ==
    LET sel == SelectSeq(d.rows, LAMBDA r : r[span_key] = span /\ notna(r[k]))
    IN  [i \in DOMAIN sel |-> Val(sel[i][k])]

\* "median": missing for no value; the middle value, or the mean of the two
\* middle values (the model's history values are even, so it is whole; in
\* the pipeline run it is rounded down to a hundredth).
Median(v) ==
    LET s == Sort(v)
        n == Len(s)
    IN  IF n = 0 THEN NaN
        ELSE IF n % 2 = 1 THEN Num(s[(n + 1) \div 2])
        ELSE Num((s[n \div 2] + s[n \div 2 + 1]) \div 2)

\* "mean": missing for no value, else the fraction <<sum, n>>
Mean(v) == IF Len(v) = 0 THEN NaN ELSE <<SumSeq(v), Len(v)>>

\* "std" (ddof = 1): missing for fewer than two values, else the fraction
\* <<n * sum(x^2) - sum(x)^2, n * (n - 1)>> that is its square
Std(v) ==
    LET n == Len(v)
        sq == [i \in DOMAIN v |-> v[i] * v[i]]
    IN  IF n < 2 THEN NaN
        ELSE <<n * SumSeq(sq) - SumSeq(v) * SumSeq(v), n * (n - 1)>>

\* "count": the number of non-missing values, 0 included
Count(v) == Num(Len(v))

Agg(stat, v) ==
    CASE stat = "median" -> Median(v)
      [] stat = "mean" -> Mean(v)
      [] stat = "std" -> Std(v)
      [] stat = "count" -> Count(v)

\* The keys of df.groupby(span_key): the distinct values of the column
GroupKeys(d, span_key) == {d.rows[i][span_key] : i \in DOMAIN d.rows}

compute_baselines(d, span_key) ==
    LET kpis_present == _find_present_kpis(d, DEFAULT_KPIS)
        cols == {StatCol(k, s) : k \in Range(kpis_present), s \in Range(STATS)}
    IN  IF kpis_present = <<>> THEN EmptyFrame
        ELSE [columns |-> cols,
              rows |-> [span \in GroupKeys(d, span_key) |->
                          [c \in cols |->
                              Agg(c[2], GroupValues(d, span_key, span, c[1]))]]]

\* Thresholds passed by main.run, in the model's units
q_drop_db == 100

cd_drift == 1000

OSNR_MIN == 1500

\* The reason strings f"q_drop<{q_drop_db}dB_vs_baseline", f"cd_drift>{cd_drift}"
\* and f"osnr_below_min<{osnr_min}", kept as the pieces they are formatted from
ReasonQ == <<"q_drop<", q_drop_db, "dB_vs_baseline">>

ReasonCD == <<"cd_drift>", cd_drift>>

ReasonOSNR(omin) == <<"osnr_below_min<", Val(omin)>>

\* row.get(col): the cell, missing when the table has no such column
Get(d, row, col) == IF col \in d.columns THEN row[col] ELSE NaN

\* QDropRecs with the comparison made non-strict
QDropRecsNonStrict(d, row, span, base) ==
    LET qcol == "QFACTOR-AVG"
        baseline_q == base[StatCol(qcol, "median")]
    IN  IF /\ qcol \in d.columns
           /\ notna(Get(d, row, qcol))
           /\ StatCol(qcol, "median") \in DOMAIN base
           /\ notna(baseline_q)
           /\ Val(row[qcol]) <= Val(baseline_q) - q_drop_db
        THEN << [timestamp |-> row["timestamp"], span |-> span, kpi |-> "qfactor",
                 col |-> qcol, value |-> row[qcol], baseline |-> baseline_q,
                 reason |-> ReasonQ] >>
        ELSE <<>>

\* The q-factor branch of the row loop: the records it appends
QDropRecs(d, row, span, base) ==
    LET qcol == "QFACTOR-AVG"
        baseline_q == base[StatCol(qcol, "median")]
    IN  IF /\ qcol \in d.columns
           /\ notna(Get(d, row, qcol))
           /\ StatCol(qcol, "median") \in DOMAIN base
           /\ notna(baseline_q)
           /\ Val(row[qcol]) < Val(baseline_q) - q_drop_db
        THEN << [timestamp |-> row["timestamp"], span |-> span, kpi |-> "qfactor",
                 col |-> qcol, value |-> row[qcol], baseline |-> baseline_q,
                 reason |-> ReasonQ] >>
        ELSE <<>>

\* CDDriftRecs with the absolute value dropped (upward drift only)
CDDriftRecsSigned(d, row, span, base) ==
    LET cdcol == "CDR"
        baseline_cd == base[StatCol(cdcol, "median")]
    IN  IF /\ cdcol \in d.columns
           /\ notna(Get(d, row, cdcol))
           /\ StatCol(cdcol, "median") \in DOMAIN base
           /\ notna(baseline_cd)
           /\ Val(row[cdcol]) - Val(baseline_cd) > cd_drift
        THEN << [timestamp |-> row["timestamp"], span |-> span, kpi |-> "cd",
                 col |-> cdcol, value |-> row[cdcol], baseline |-> baseline_cd,
                 reason |-> ReasonCD] >>
        ELSE <<>>

\* The dispersion branch of the row loop
CDDriftRecs(d, row, span, base) ==
    LET cdcol == "CDR"
        baseline_cd == base[StatCol(cdcol, "median")]
    IN  IF /\ cdcol \in d.columns
           /\ notna(Get(d, row, cdcol))
           /\ StatCol(cdcol, "median") \in DOMAIN base
           /\ notna(baseline_cd)
           /\ Abs(Val(row[cdcol]) - Val(baseline_cd)) > cd_drift
        THEN << [timestamp |-> row["timestamp"], span |-> span, kpi |-> "cd",
                 col |-> cdcol, value |-> row[cdcol], baseline |-> baseline_cd,
                 reason |-> ReasonCD] >>
        ELSE <<>>

\* OsnrRecs firing at the floor itself
OsnrRecsAtFloor(d, row, span, base, omin) ==
    LET osnrcol == "ESNR-AVG"
    IN  IF /\ osnrcol \in d.columns
           /\ omin # NaN
           /\ notna(Get(d, row, osnrcol))
           /\ Val(row[osnrcol]) <= Val(omin)
        THEN << [timestamp |-> row["timestamp"], span |-> span, kpi |-> "osnr",
                 col |-> osnrcol, value |-> row[osnrcol],
                 baseline |-> IF StatCol(osnrcol, "median") \in DOMAIN base
                              THEN base[StatCol(osnrcol, "median")] ELSE NaN,
                 reason |-> ReasonOSNR(omin)] >>
        ELSE <<>>

\* The OSNR branch of the row loop; base.get(f"{osnrcol}_median", np.nan)
OsnrRecs(d, row, span, base, omin) ==
    LET osnrcol == "ESNR-AVG"
    IN  IF /\ osnrcol \in d.columns
           /\ omin # NaN
           /\ notna(Get(d, row, osnrcol))
           /\ Val(row[osnrcol]) < Val(omin)
        THEN << [timestamp |-> row["timestamp"], span |-> span, kpi |-> "osnr",
                 col |-> osnrcol, value |-> row[osnrcol],
                 baseline |-> IF StatCol(osnrcol, "median") \in DOMAIN base
                              THEN base[StatCol(osnrcol, "median")] ELSE NaN,
                 reason |-> ReasonOSNR(omin)] >>
        ELSE <<>>

\* One pass of the loop body for a row: nothing when the span has no baseline
\* row (the `continue`), else the records of the three rules in order.
RowRecs(d, b, span_key, row, omin) ==
    LET span == row[span_key]
    IN  IF span \notin DOMAIN b.rows THEN <<>>
        ELSE LET base == b.rows[span]
             IN  QDropRecs(d, row, span, base) \o CDDriftRecs(d, row, span, base)
                   \o OsnrRecs(d, row, span, base, omin)

RECURSIVE LoopRows(_, _, _, _, _)
LoopRows(d, b, span_key, i, omin) ==
    IF i > Len(d.rows) THEN <<>>
    ELSE RowRecs(d, b, span_key, d.rows[i], omin)
           \o LoopRows(d, b, span_key, i + 1, omin)

detect_anomalies_baseline(d, b, span_key, omin) ==
    IF BaselinesEmpty(b) THEN <<>>
    ELSE LoopRows(d, b, span_key, 1, omin)

----------------------------------------------------------------------------
(* clean.py: resample_group.  Time is in units of 5 minutes, so the default *)
(* cadence "15T" is 3 and timestamps can fall between grid slots.  A filled *)
(* cell is a whole number <<v>> when it is carried and a fraction <<n, d>>  *)
(* when it is interpolated.                                                 *)

Cadence == 3

NaT == <<>>

KPI == "QFACTOR-AVG"

\* groupby iterates the group keys in sorted order
SpanOrder == <<"S1", "S2">>

\* The sequence f[1], ..., f[n] of a function on 1..n, each cell computed once
RECURSIVE Cells(_, _)
Cells(f, n) == IF n = 0 THEN <<>> ELSE Append(Cells(f, n - 1), f[n])

MinOf(S) == CHOOSE x \in S : \A y \in S : x <= y

MaxOf(S) == CHOOSE x \in S : \A y \in S : x >= y

\* The rows of group `name`, in table order
GroupRows(d, name) == SelectSeq(d.rows, LAMBDA r : r["TP"] = name)

\* The non-missing timestamps of the rows g
ValidTimes(g) == {Val(g[i]["timestamp"]) : i \in {j \in DOMAIN g : g[j]["timestamp"] # NaT}}

\* Index.is_unique of the timestamp index of g (NaT labels count as labels)
IndexIsUnique(g) ==
    \A i, j \in DOMAIN g : g[i]["timestamp"] = g[j]["timestamp"] => i = j

\* date_range that rounds the number of periods up, so that the last slot
\* may lie past `end`
date_range_ceil(start, end, freq) ==
    Cells([k \in 1..((end - start + freq - 1) \div freq + 1) |->
              start + (k - 1) * freq],
          (end - start + freq - 1) \div freq + 1)

\* pd.date_range(start, end, freq): start, start + freq, ... up to end
date_range(start, end, freq) ==
    Cells([k \in 1..((end - start) \div freq + 1) |-> start + (k - 1) * freq],
          (end - start) \div freq + 1)

\* g.reindex(full_idx), one column: the cell of the row labelled t, else NaN
Reindex(g, full_idx, c) ==
    Cells([k \in DOMAIN full_idx |->
              LET hit == {i \in DOMAIN g : g[i]["timestamp"] = Num(full_idx[k])}
              IN  IF hit = {} THEN NaN ELSE g[CHOOSE i \in hit : TRUE][c]],
          Len(full_idx))

\* The nearest non-missing position before k (0 if none) and after k
\* (Len + 1 if none)
PrevValid(col, k) ==
    LET S == {i \in 1..(k - 1) : col[i] # NaN} IN IF S = {} THEN 0 ELSE MaxOf(S)

NextValid(col, k) ==
    LET S == {i \in (k + 1)..Len(col) : col[i] # NaN}
    IN  IF S = {} THEN Len(col) + 1 ELSE MinOf(S)

\* ffill that also overwrites the cells that hold a value
ffill_overwriting(col, limit) ==
    Cells([k \in DOMAIN col |->
              LET p == PrevValid(col, k)
              IN  IF p >= 1 /\ k - p <= limit THEN col[p] ELSE col[k]],
          Len(col))

\* ffill(limit): a missing cell takes the last valid cell before it, when at
\* most `limit` positions back
ffill(col, limit) ==
    Cells([k \in DOMAIN col |->
              IF col[k] # NaN THEN col[k]
              ELSE LET p == PrevValid(col, k)
                   IN  IF p >= 1 /\ k - p <= limit THEN col[p] ELSE NaN],
          Len(col))

\* bfill(limit): the same from the next valid cell after it
bfill(col, limit) ==
    Cells([k \in DOMAIN col |->
              IF col[k] # NaN THEN col[k]
              ELSE LET n == NextValid(col, k)
                   IN  IF n <= Len(col) /\ n - k <= limit THEN col[n] ELSE NaN],
          Len(col))

\* Linear interpolation with the slope's sign slipped
LinearNegated(a, b, k, p, n) == <<a * (n - p) - (b - a) * (k - p), n - p>>

\* The value at position k on the line from (p, a) to (n, b), as a fraction
Linear(a, b, k, p, n) == <<a * (n - p) + (b - a) * (k - p), n - p>>

\* interpolate(method="time", limit): forward only; a missing cell at most
\* `limit` positions after a valid one lies on the line to the next valid
\* cell, or repeats the last valid cell when none follows; cells before the
\* first valid cell stay missing.  On the regular grid time is position.
interpolate(col, limit) ==
    Cells([k \in DOMAIN col |->
              IF col[k] # NaN THEN col[k]
              ELSE LET p == PrevValid(col, k)
                       n == NextValid(col, k)
                   IN  IF p < 1 \/ k - p > limit THEN NaN
                       ELSE IF n > Len(col) THEN col[p]
                       ELSE Linear(Val(col[p]), Val(col[n]), k, p, n)],
          Len(col))

RECURSIVE InsertRow(_, _)
InsertRow(r, s) ==
    IF s = <<>> THEN <<r>>
    ELSE IF /\ r["timestamp"] # NaT
            /\ \/ Head(s)["timestamp"] = NaT
               \/ Val(r["timestamp"]) < Val(Head(s)["timestamp"])
         THEN <<r>> \o s
         ELSE <<Head(s)>> \o InsertRow(r, Tail(s))

\* set_index("timestamp").sort_index(): by timestamp, NaT last
RECURSIVE sort_index(_)
sort_index(g) == IF g = <<>> THEN <<>> ELSE InsertRow(Head(g), sort_index(Tail(g)))

\* The body of the group loop raises ValueError when the group has no valid
\* timestamp (date_range of NaT) or a repeated index label (reindex)
GroupRaises(g0) == ValidTimes(g0) = {} \/ ~IndexIsUnique(g0)

\* The body of the group loop: the output rows of one group
ResampleOne(g0, name, freq) ==
    LET g == sort_index(g0)
        full_idx == date_range(MinOf(ValidTimes(g)), MaxOf(ValidTimes(g)), freq)
        col == interpolate(bfill(ffill(Reindex(g, full_idx, KPI), 2), 2), 4)
    IN  Cells([k \in DOMAIN full_idx |->
                  [c \in {"timestamp", "TP", KPI} |->
                      CASE c = "timestamp" -> Num(full_idx[k])
                        [] c = "TP" -> name
                        [] c = KPI -> col[k]]],
              Len(full_idx))

RECURSIVE ConcatGroups(_, _, _)
ConcatGroups(d, names, freq) ==
    IF names = <<>> THEN <<>>
    ELSE ResampleOne(GroupRows(d, Head(names)), Head(names), freq)
           \o ConcatGroups(d, Tail(names), freq)

\* The group keys of d in iteration order
Groups(d) == SelectSeq(SpanOrder, LAMBDA s : GroupRows(d, s) # <<>>)

\* The returned table, or the exception that ends the call
resample_group(d, freq) ==
    IF \E s \in Range(Groups(d)) : GroupRaises(GroupRows(d, s))
    THEN [raised |-> "ValueError", rows |-> <<>>]
    ELSE [raised |-> "", rows |-> ConcatGroups(d, Groups(d), freq)]

----------------------------------------------------------------------------
(* analyze.py: detect_missing_timestamps *)

\* g["timestamp"].dropna(), sorted: the valid timestamps with repetitions
DropnaSorted(g) ==
    LET sel == SelectSeq(g, LAMBDA r : r["timestamp"] # NaT)
    IN  Sort([i \in DOMAIN sel |-> Val(sel[i]["timestamp"])])

\* len(ts) in place of len(ts.unique())
ObservedWithRepeats(ts) == Len(ts)

\* len(ts.unique())
ObservedCount(ts) == Cardinality(Range(ts))

\* The loop body: no row for a group without a valid timestamp, else its row
GapRow(g, name, freq) ==
    LET ts == DropnaSorted(g)
        expected_idx == date_range(ts[1], ts[Len(ts)], freq)
    IN  IF ts = <<>> THEN <<>>
        ELSE << [group |-> name,
                 expected_count |-> Len(expected_idx),
                 observed_count |-> ObservedCount(ts),
                 missing_count |-> Len(expected_idx) - ObservedCount(ts)] >>

RECURSIVE GapRows(_, _, _)
GapRows(d, names, freq) ==
    IF names = <<>> THEN <<>>
    ELSE GapRow(GroupRows(d, Head(names)), Head(names), freq)
           \o GapRows(d, Tail(names), freq)

detect_missing_timestamps(d, freq) == GapRows(d, Groups(d), freq)

----------------------------------------------------------------------------
(* ingest.py: load_csv_files, and clean.py: cast_numeric.  A raw CSV field  *)
(* is a token, the sequence of its characters.  A cell of a text (object)   *)
(* column is Str(token); the group key is kept as an atom.                  *)

Str(tok) == <<"str", tok>>

IsStr(x) == Len(x) = 2 /\ x[1] = "str"

Digits == <<"0", "1", "2", "3", "4", "5", "6", "7", "8", "9">>

IsDigit(c) == \E d \in DOMAIN Digits : Digits[d] = c

DigitVal(c) == (CHOOSE d \in DOMAIN Digits : Digits[d] = c) - 1

AllDigits(s) == \A i \in DOMAIN s : IsDigit(s[i])

RECURSIVE DigitsValue(_)
DigitsValue(s) ==
    IF s = <<>> THEN 0
    ELSE DigitsValue(SubSeq(s, 1, Len(s) - 1)) * 10 + DigitVal(s[Len(s)])

RECURSIVE Pow10(_)
Pow10(n) == IF n = 0 THEN 1 ELSE 10 * Pow10(n - 1)

\* The value, in hundredths, of an unsigned decimal literal: digits with at
\* most one point and a digit on one side of it; missing for any other text
ParseUnsigned(tok) ==
    LET dots == {i \in DOMAIN tok : tok[i] = "."}
    IN  IF dots = {}
        THEN IF tok # <<>> /\ AllDigits(tok) THEN Num(DigitsValue(tok) * 100)
             ELSE NaN
        ELSE IF Cardinality(dots) > 1 THEN NaN
        ELSE LET p == CHOOSE i \in dots : TRUE
                 int == SubSeq(tok, 1, p - 1)
                 frac == SubSeq(tok, p + 1, Len(tok))
             IN  IF AllDigits(int) /\ AllDigits(frac) /\ Len(int) + Len(frac) > 0
                 THEN Num(DigitsValue(int) * 100
                            + (DigitsValue(frac) * 100) \div Pow10(Len(frac)))
                 ELSE NaN

\* The number a text parses to (float(text)), missing when it does not parse
ParseDecimal(tok) ==
    IF tok # <<>> /\ tok[1] = "-"
    THEN LET u == ParseUnsigned(Tail(tok))
         IN  IF u = NaN THEN NaN ELSE Num(-Val(u))
    ELSE ParseUnsigned(tok)

\* Among the fields pd.read_csv reads as missing by default, the empty field
DefaultNaTokens == {<<>>}

\* pd.read_csv, one column (low_memory=False: the column is typed as a
\* whole): a column whose fields all parse as numbers or are empty becomes
\* numeric, any other column keeps its fields as text
ReadCsvColumn(col) ==
    LET isna(t) == t \in DefaultNaTokens
        numeric == \A i \in DOMAIN col : isna(col[i]) \/ ParseDecimal(col[i]) # NaN
    IN  [i \in DOMAIN col |->
            IF isna(col[i]) THEN NaN
            ELSE IF numeric THEN ParseDecimal(col[i])
            ELSE Str(col[i])]

\* The list na_values of _clean_na_values: "NS", "-99.95", "-99.9", "-40.0", ""
na_values ==
    { <<"N", "S">>, <<"-", "9", "9", ".", "9", "5">>, <<"-", "9", "9", ".", "9">>,
      <<"-", "4", "0", ".", "0">>, <<>> }

\* df.replace(na_values, pd.NA), one cell: a text cell equal to one of the
\* listed strings becomes missing; a number is not equal to any string
_clean_na_values(cell) ==
    IF IsStr(cell) /\ cell[2] \in na_values THEN NaN ELSE cell

\* pd.to_datetime(errors="coerce"), one field of the Time column: an instant
\* is kept, any other text becomes NaT
to_datetime(cell) == IF IsStr(cell) THEN NaT ELSE cell

\* Columns of a raw file that are neither the time nor a group key
IsKeyColumn(c) == c \in {"Time", "timestamp", "NE", "TP"}

\* The frame load_csv_files builds of one file: the columns as read, the
\* added timestamp column, and the sentinel replacement (a group key of the
\* model is never one of the listed strings)
LoadOne(file) ==
    LET n == Len(file.rows)
        read(c) == IF IsKeyColumn(c) THEN [i \in 1..n |-> file.rows[i][c]]
                   ELSE ReadCsvColumn([i \in 1..n |-> file.rows[i][c]])
        cols == file.columns \cup {"timestamp"}
    IN  [columns |-> cols,
         rows |-> Cells([i \in 1..n |->
                     [c \in cols |->
                         IF c = "timestamp"
                         THEN IF "Time" \in file.columns
                              THEN to_datetime(file.rows[i]["Time"])
                              ELSE NaT
                         ELSE IF c \in {"TP", "NE"} THEN file.rows[i][c]
                         ELSE _clean_na_values(read(c)[i])]], n)]

\* load_csv_files(paths): an empty frame for no file, else the frame of the
\* file (the model reads at most one file)
load_csv_files(paths) ==
    IF paths = <<>> THEN EmptyFrame ELSE LoadOne(paths[1])

\* pd.to_numeric(errors="coerce"), one cell
to_numeric(cell) == IF IsStr(cell) THEN ParseDecimal(cell[2]) ELSE cell

\* cast_numeric(df) with cols = None: every column but the keys
cast_numeric(d) ==
    [columns |-> d.columns,
     rows |-> Cells([i \in DOMAIN d.rows |->
                 [c \in d.columns |->
                     IF IsKeyColumn(c) THEN d.rows[i][c]
                     ELSE to_numeric(d.rows[i][c])]], Len(d.rows))]

----------------------------------------------------------------------------
(* Bounded inputs of the deviation detector *)

MaxRows == 2

Spans == {"S1", "S2"}

KpiCols == {"QFACTOR-AVG", "CDR", "ESNR-AVG"}

\* Sample tables may lack KPI columns
DfColumnSets == {KpiCols, {"QFACTOR-AVG", "CDR"}, {"ESNR-AVG"}}

\* Observed cells: 8.5 and 9.5 dB against medians of 10.0 and 9.5 (margin 1.0), a
\* dispersion of 1001 against medians 0, 1 and 2002 (bound 1000), an OSNR of
\* 14.9 dB against floors of 15.0 and 14.9
SampleCells(c) ==
    CASE c = "QFACTOR-AVG" -> {NaN, Num(850), Num(950)}
      [] c = "CDR" -> {NaN, Num(1001)}
      [] c = "ESNR-AVG" -> {NaN, Num(1490)}

\* Rows over the columns cols, without their timestamp
RowsOver(cols, cells(_)) ==
    LET opt(c) == IF c \in cols THEN cells(c) ELSE {NaN}
    IN  {[c \in cols \cup {"TP"} |->
            CASE c = "TP" -> span
              [] c = "QFACTOR-AVG" -> q
              [] c = "CDR" -> cd
              [] c = "ESNR-AVG" -> osnr] :
          span \in Spans, q \in opt("QFACTOR-AVG"), cd \in opt("CDR"),
          osnr \in opt("ESNR-AVG")}

\* The table of the rows body[1..n]; row i carries timestamp i, so rows are
\* told apart
MkTable(cols, body, n) ==
    [columns |-> cols \cup {"TP", "timestamp"},
     rows |-> [i \in 1..n |->
                 [c \in cols \cup {"TP", "timestamp"} |->
                     IF c = "timestamp" THEN Num(i) ELSE body[i][c]]]]

\* d is a table of at most maxn rows over one of the column sets
IsTable(d, colsets, cells(_), maxn) ==
    \E cols \in colsets, n \in 0..maxn :
        \E body \in [1..n -> RowsOver(cols, cells)] : d = MkTable(cols, body, n)

\* Histories the baseline of a detector run is computed from: one row per
\* span that has history
Profiles ==
    { [q |-> Num(1000), cd |-> Num(0), osnr |-> Num(1600)],
      [q |-> Num(950), cd |-> Num(1), osnr |-> Num(1600)],
      [q |-> NaN, cd |-> Num(2002), osnr |-> NaN],
      [q |-> NaN, cd |-> NaN, osnr |-> NaN] }

FullProfile == [q |-> Num(1000), cd |-> Num(0), osnr |-> Num(1600)]

HistRow(cols, span, p) ==
    [c \in cols \cup {"TP", "timestamp"} |->
        CASE c = "TP" -> span
          [] c = "timestamp" -> Num(0)
          [] c = "QFACTOR-AVG" -> p.q
          [] c = "CDR" -> p.cd
          [] c = "ESNR-AVG" -> p.osnr]

HistColumnSets == {KpiCols, {"QFACTOR-AVG", "CDR"}, {}}

DetectorHistories ==
    {[columns |-> cols \cup {"TP", "timestamp"},
      rows |-> (IF p1 = NaN THEN <<>> ELSE <<HistRow(cols, "S1", p1)>>)
                 \o (IF p2 = NaN THEN <<>> ELSE <<HistRow(cols, "S2", p2)>>)] :
        cols \in HistColumnSets, p1 \in Profiles \cup {NaN},
        p2 \in {FullProfile, NaN}}

BaselineTables == {compute_baselines(h, "TP") : h \in DetectorHistories}

OsnrMins == {NaN, Num(OSNR_MIN), Num(OSNR_MIN - 10)}

----------------------------------------------------------------------------
(* The deviation detector applied to a sample table and a baseline table *)

DetectInit ==
    /\ pc = "detect"
    /\ IsTable(df, DfColumnSets, SampleCells, MaxRows)
    /\ baselines \in BaselineTables
    /\ osnr_min \in OsnrMins
    /\ recs = <<>>
    /\ resampled = <<>>
    /\ gaps = <<>>
    /\ files = <<>>
    /\ stages = <<>>
    /\ raised = ""

DetectAnomaliesBaseline ==
    /\ pc = "detect"
    /\ recs' = detect_anomalies_baseline(df, baselines, "TP", osnr_min)
    /\ pc' = "detected"
    /\ UNCHANGED <<df, baselines, osnr_min, resampled, gaps, files, stages, raised>>

DetectNext == DetectAnomaliesBaseline

SpecDetect == DetectInit /\ [][DetectNext]_vars

----------------------------------------------------------------------------
(* Claims about the deviation detector *)

\* The indices of the emitted records of rule `kpi` for the row of timestamp i
RecsOf(i, kpi) ==
    {j \in DOMAIN recs : recs[j].timestamp = <<i>> /\ recs[j].kpi = kpi}

\* The span of row i has a non-missing baseline median for column c
HasMedian(i, c) ==
    /\ df.rows[i]["TP"] \in DOMAIN baselines.rows
    /\ <<c, "median">> \in baselines.columns
    /\ baselines.rows[df.rows[i]["TP"]][<<c, "median">>] # NaN

MedianOf(i, c) == baselines.rows[df.rows[i]["TP"]][<<c, "median">>][1]

Present(i, c) == c \in df.columns /\ df.rows[i][c] # NaN

BelowFloor(i) ==
    /\ Present(i, "ESNR-AVG")
    /\ osnr_min # NaN
    /\ df.rows[i]["ESNR-AVG"][1] < osnr_min[1]

\* C1: every row whose OSNR is present and below the configured minimum gets
\* exactly one OSNR-floor record, whether or not the baseline table has a row
\* for its span (or any row at all); without one the record's baseline is null.
C1_OsnrFloorIndependentOfBaseline ==
    pc = "detected" =>
        \A i \in DOMAIN df.rows :
            BelowFloor(i) =>
                /\ Cardinality(RecsOf(i, "osnr")) = 1
                /\ \A j \in RecsOf(i, "osnr") :
                      ~HasMedian(i, "ESNR-AVG") => recs[j].baseline = NaN

QBreach(i) ==
    /\ Present(i, "QFACTOR-AVG")
    /\ HasMedian(i, "QFACTOR-AVG")
    /\ df.rows[i]["QFACTOR-AVG"][1] < MedianOf(i, "QFACTOR-AVG") - q_drop_db

\* C2: a row gets exactly one q_drop record when its Q-factor is present, its
\* span has a non-missing Q-factor median and value < median - margin, and no
\* q_drop record otherwise; the record carries the value and the median.
C2_QDropExactlyWhenBelowMargin ==
    pc = "detected" =>
        \A i \in DOMAIN df.rows :
            /\ Cardinality(RecsOf(i, "qfactor")) = (IF QBreach(i) THEN 1 ELSE 0)
            /\ \A j \in RecsOf(i, "qfactor") :
                  /\ recs[j].value = df.rows[i]["QFACTOR-AVG"]
                  /\ recs[j].baseline = <<MedianOf(i, "QFACTOR-AVG")>>
                  /\ recs[j].span = df.rows[i]["TP"]

\* A q_drop record and, in the same run, a row whose Q-factor sits exactly on
\* median - margin and a row whose span has no Q-factor median
C2_Witness ==
    /\ pc = "detected"
    /\ \E i \in DOMAIN df.rows : RecsOf(i, "qfactor") # {}
    /\ \E i \in DOMAIN df.rows :
          /\ Present(i, "QFACTOR-AVG")
          /\ \/ ~HasMedian(i, "QFACTOR-AVG")
             \/ df.rows[i]["QFACTOR-AVG"][1] = MedianOf(i, "QFACTOR-AVG") - q_drop_db

CDBreach(i) ==
    /\ Present(i, "CDR")
    /\ HasMedian(i, "CDR")
    /\ LET d == df.rows[i]["CDR"][1] - MedianOf(i, "CDR")
       IN  d > cd_drift \/ -d > cd_drift

\* C3: a row gets a cd_drift record exactly when its CD is present, its span
\* has a non-missing CD median and |value - median| > bound; a span without a
\* baseline row or CD median yields no cd_drift record, and the run completes.
C3_CDDriftExactlyWhenBeyondBound ==
    pc = "detected" =>
        \A i \in DOMAIN df.rows :
            /\ RecsOf(i, "cd") # {} <=> CDBreach(i)
            /\ Cardinality(RecsOf(i, "cd")) <= 1
            /\ ~HasMedian(i, "CDR") => RecsOf(i, "cd") = {}

\* A cd_drift record for a value below its median, and a row with a CD value
\* whose span is absent from a non-empty baseline table
C3_Witness ==
    /\ pc = "detected"
    /\ \E i \in DOMAIN df.rows :
          /\ RecsOf(i, "cd") # {}
          /\ df.rows[i]["CDR"][1] < MedianOf(i, "CDR")
    /\ \E i \in DOMAIN df.rows :
          /\ Present(i, "CDR")
          /\ df.rows[i]["TP"] \notin DOMAIN baselines.rows
          /\ DOMAIN baselines.rows # {}

\* Record j restates a breach of its rule by row i
Breaches(j, i) ==
    /\ recs[j].timestamp = df.rows[i]["timestamp"]
    /\ recs[j].span = df.rows[i]["TP"]
    /\ recs[j].col \in df.columns
    /\ recs[j].value = df.rows[i][recs[j].col]
    /\ recs[j].value # NaN
    /\ CASE recs[j].reason[1] = "q_drop<" ->
              recs[j].col = "QFACTOR-AVG" /\ QBreach(i)
              /\ recs[j].baseline = <<MedianOf(i, "QFACTOR-AVG")>>
         [] recs[j].reason[1] = "cd_drift>" ->
              recs[j].col = "CDR" /\ CDBreach(i)
              /\ recs[j].baseline = <<MedianOf(i, "CDR")>>
         [] recs[j].reason[1] = "osnr_below_min<" ->
              recs[j].col = "ESNR-AVG" /\ BelowFloor(i)
         [] OTHER -> FALSE

\* C4: every emitted record corresponds to an input row whose value for the
\* record's column breaches the rule its reason names, and a record's baseline
\* is null only when that rule is the OSNR floor.
C4_RecordsAreBreaches ==
    \A j \in DOMAIN recs :
        /\ \E i \in DOMAIN df.rows : Breaches(j, i)
        /\ recs[j].baseline = NaN => recs[j].reason[1] = "osnr_below_min<"

\* A run that emits an OSNR record with a null baseline beside a q_drop and a
\* cd_drift record
C4_Witness ==
    /\ pc = "detected"
    /\ \E j \in DOMAIN recs :
          recs[j].reason[1] = "osnr_below_min<" /\ recs[j].baseline = NaN
    /\ \E j \in DOMAIN recs : recs[j].reason[1] = "q_drop<"
    /\ \E j \in DOMAIN recs : recs[j].reason[1] = "cd_drift>"

----------------------------------------------------------------------------
(* The baseline estimator applied to a history table *)

MaxHistRows == 3

\* History cells are even, so the median of two of them is whole
HistoryCells(c) ==
    CASE c = "QFACTOR-AVG" -> {NaN, Num(1000), Num(900)}
      [] c = "CDR" -> {NaN, Num(0)}
      [] c = "ESNR-AVG" -> {NaN, Num(1600)}

BaselineInit ==
    /\ pc = "baseline"
    /\ IsTable(df, HistColumnSets, HistoryCells, MaxHistRows)
    /\ baselines = EmptyFrame
    /\ osnr_min = NaN
    /\ recs = <<>>
    /\ resampled = <<>>
    /\ gaps = <<>>
    /\ files = <<>>
    /\ stages = <<>>
    /\ raised = ""

ComputeBaselines ==
    /\ pc = "baseline"
    /\ baselines' = compute_baselines(df, "TP")
    /\ pc' = "baselined"
    /\ UNCHANGED <<df, osnr_min, recs, resampled, gaps, files, stages, raised>>

BaselineNext == ComputeBaselines

SpecBaseline == BaselineInit /\ [][BaselineNext]_vars

\* The number of non-missing observations of KPI k in group span
Observations(span, k) ==
    Cardinality({i \in DOMAIN df.rows :
                    df.rows[i]["TP"] = span /\ df.rows[i][k] # NaN})

\* The result holds an entry (any cell, a placeholder included) for (span, k)
HasEntry(span, k) ==
    /\ span \in DOMAIN baselines.rows
    /\ \E c \in DOMAIN baselines.rows[span] : c[1] = k

\* C5: a (group, KPI) pair with zero non-missing observations is absent from
\* the result of compute_baselines: no zero, no missing-valued placeholder, no
\* count 0, for every table in which the group has rows.
C5_NoEntryWithoutObservations ==
    pc = "baselined" =>
        \A span \in Spans : \A k \in df.columns \cap KpiCols :
            ( /\ \E i \in DOMAIN df.rows : df.rows[i]["TP"] = span
              /\ Observations(span, k) = 0 )
            => ~HasEntry(span, k)

----------------------------------------------------------------------------
(* Bounded inputs of the resampler and the gap detector: a group S1 whose   *)
(* samples vary, alone, beside a second group S2, or with a malformed row   *)

MaxSlots == 10

MaxSamples == 3

\* Grid slots counted from 0, and timestamps between slots
TimeSet == {k * Cadence : k \in 0..MaxSlots} \cup {1, 10, 22}

\* The first sample of S1 is at 0 (the resampler only sees differences)
TimeSets ==
    {{}} \cup {{0} \cup U : U \in {V \in SUBSET (TimeSet \ {0}) :
                                     Cardinality(V) <= MaxSamples - 1}}

KpiCells == {NaN, Num(10), Num(40)}

SeriesRow(name, t, v) ==
    [c \in {"TP", "timestamp", KPI} |->
        CASE c = "TP" -> name [] c = "timestamp" -> t [] c = KPI -> v]

\* The rows of S1 for the timestamps T, latest first
RECURSIVE LatestFirst(_, _)
LatestFirst(T, vals) ==
    IF T = {} THEN <<>>
    ELSE LET t == MaxOf(T)
         IN  <<SeriesRow("S1", Num(t), vals[t])>> \o LatestFirst(T \ {t}, vals)

\* What the table holds beside the samples of S1: nothing, the two samples of
\* a group S2 far away, a row of S1 without a timestamp, or a row of S1 that
\* repeats its latest timestamp
Variants == {"plain", "S2", "NaT", "repeat"}

Before(T, variant) ==
    IF variant = "S2"
    THEN <<SeriesRow("S2", Num(90), Num(10)), SeriesRow("S2", Num(96), Num(40))>>
    ELSE <<>>

After(T, variant) ==
    CASE variant = "NaT" -> <<SeriesRow("S1", NaT, Num(10))>>
      [] variant = "repeat" /\ T # {} -> <<SeriesRow("S1", Num(MaxOf(T)), Num(40))>>
      [] OTHER -> <<>>

IsSeriesTable(d) ==
    \E T \in TimeSets, variant \in Variants :
        \E vals \in [T -> KpiCells] :
            d = [columns |-> {"TP", "timestamp", KPI},
                 rows |-> Before(T, variant) \o LatestFirst(T, vals)
                            \o After(T, variant)]

----------------------------------------------------------------------------
(* The resampler applied to a table of samples *)

ResampleInit ==
    /\ pc = "resample"
    /\ IsSeriesTable(df)
    /\ baselines = EmptyFrame
    /\ osnr_min = NaN
    /\ recs = <<>>
    /\ resampled = <<>>
    /\ gaps = <<>>
    /\ files = <<>>
    /\ stages = <<>>
    /\ raised = ""

ResampleGroup ==
    /\ pc = "resample"
    /\ resampled' = resample_group(df, Cadence)
    /\ pc' = "resampled"
    /\ UNCHANGED <<df, baselines, osnr_min, recs, gaps, files, stages, raised>>

ResampleNext == ResampleGroup

SpecResample == ResampleInit /\ [][ResampleNext]_vars

----------------------------------------------------------------------------
(* Claims about the resampler, stated on the input table df and the output  *)
(* table resampled                                                          *)

Resampled == pc = "resampled" /\ resampled.raised = ""

GroupNames == {df.rows[i]["TP"] : i \in DOMAIN df.rows}

\* The observed (valid) timestamps of a group
Observed(name) ==
    {df.rows[i]["timestamp"][1] :
        i \in {j \in DOMAIN df.rows :
                 df.rows[j]["TP"] = name /\ df.rows[j]["timestamp"] # <<>>}}

First(name) == LET obs == Observed(name) IN CHOOSE t \in obs : \A u \in obs : t <= u

Last(name) == LET obs == Observed(name) IN CHOOSE t \in obs : \A u \in obs : t >= u

\* The grid of a group: first, first + cadence, ... within [first, last]
Grid(name) ==
    LET first == First(name)
        last == Last(name)
    IN  {first + k * Cadence : k \in 0..((last - first) \div Cadence)}

\* Slot t of the group holds a known value after reindexing: a sample of the
\* group at t carries the KPI
KnownAt(name, t) ==
    \E i \in DOMAIN df.rows :
        /\ df.rows[i]["TP"] = name
        /\ df.rows[i]["timestamp"] = <<t>>
        /\ df.rows[i][KPI] # <<>>

KnownValue(name, t) ==
    LET i == CHOOSE j \in DOMAIN df.rows :
                 /\ df.rows[j]["TP"] = name
                 /\ df.rows[j]["timestamp"] = <<t>>
                 /\ df.rows[j][KPI] # <<>>
    IN  df.rows[i][KPI][1]

\* The slots of a grid that hold a known value after reindexing
KnownSlots(name, grid) == {t \in grid : KnownAt(name, t)}

OutAt(name, t) ==
    {j \in DOMAIN resampled.rows :
        resampled.rows[j]["TP"] = name /\ resampled.rows[j]["timestamp"] = <<t>>}

\* The output cell of slot t (the slot has exactly one output row)
OutCell(name, t) == resampled.rows[CHOOSE j \in OutAt(name, t) : TRUE][KPI]

Numer(c) == c[1]

Denom(c) == IF Len(c) = 2 THEN c[2] ELSE 1

\* The slots a..b of the grid are a run of missing slots between two known
\* values
IsRun(grid, known, a, b) ==
    /\ a <= b
    /\ \A t \in grid : (a <= t /\ t <= b) => t \notin known
    /\ a - Cadence \in known
    /\ b + Cadence \in known

RunLength(a, b) == (b - a) \div Cadence + 1

\* C6: in a run of missing slots between two known values, a run of at most 2
\* slots is filled by carrying a neighbour's value; a longer run is filled in
\* at most 4 slots, the others staying missing; a run of more than 4 slots is
\* never completely filled.
C6_GapFillBounds ==
    Resampled =>
        \A name \in GroupNames :
            LET grid == Grid(name)
                known == KnownSlots(name, grid)
            IN  \A a, b \in grid :
                  IsRun(grid, known, a, b) =>
                    LET before == KnownValue(name, a - Cadence)
                        after == KnownValue(name, b + Cadence)
                        len == RunLength(a, b)
                        run == {t \in grid : a <= t /\ t <= b}
                        filled == {t \in run : OutCell(name, t) # <<>>}
                    IN  /\ len <= 2 =>
                              \A t \in run :
                                  OutCell(name, t) \in {<<before>>, <<after>>}
                        /\ len > 2 => Cardinality(filled) <= 4
                        /\ len > 4 => filled # run

\* C7: every output timestamp of a group lies in [first, last] observed
\* timestamp of that group and is first + k * cadence with k >= 0.
C7_NoExtrapolation ==
    Resampled =>
        \A name \in {resampled.rows[j]["TP"] : j \in DOMAIN resampled.rows} :
            /\ Observed(name) # {}
            /\ LET first == First(name)
                   last == Last(name)
               IN  \A j \in DOMAIN resampled.rows :
                     resampled.rows[j]["TP"] = name =>
                       LET t == resampled.rows[j]["timestamp"]
                       IN  /\ t # <<>>
                           /\ first <= t[1] /\ t[1] <= last
                           /\ (t[1] - first) % Cadence = 0

\* A group whose last sample lies between grid slots and whose output has
\* several rows, the last of them before that sample
C7_Witness ==
    /\ Resampled
    /\ \E name \in GroupNames :
          /\ Observed(name) # {}
          /\ (Last(name) - First(name)) % Cadence # 0
          /\ Cardinality({j \in DOMAIN resampled.rows :
                            resampled.rows[j]["TP"] = name}) >= 3

\* The values of the nearest known slot before t and of the nearest after t
Bracket(name, known, t) ==
    LET before == {u \in known : u < t}
        after == {u \in known : u > t}
    IN  {KnownValue(name, u) :
            u \in {v \in before : \A w \in before : w <= v}
                  \cup {v \in after : \A w \in after : v <= w}}

\* C8: every grid slot of a group has one output row, and every value written
\* into a slot that was missing after reindexing lies between the nearest
\* preceding and the nearest following known value of the group, bounds
\* included (samples at t0, t0+15m, t0+60m: the slots t0+30m and t0+45m exist
\* and hold values between those at t0+15m and t0+60m).
C8_NoOvershoot ==
    Resampled =>
        \A name \in GroupNames :
            LET grid == Grid(name)
                known == KnownSlots(name, grid)
            IN  \A t \in grid :
                  /\ Cardinality(OutAt(name, t)) = 1
                  /\ (t \notin known /\ OutCell(name, t) # <<>>) =>
                        LET c == OutCell(name, t)
                            around == Bracket(name, known, t)
                        IN  /\ around # {}
                            /\ \E lo \in around : lo * Denom(c) <= Numer(c)
                            /\ \E hi \in around : Numer(c) <= hi * Denom(c)

\* Samples at t0, t0 + 15 min and t0 + 60 min with different values at the
\* last two: the slots at t0 + 30 min and t0 + 45 min are in the output, filled
C8_Witness ==
    /\ Resampled
    /\ Observed("S1") = {0, Cadence, 4 * Cadence}
    /\ KnownAt("S1", Cadence) /\ KnownAt("S1", 4 * Cadence)
    /\ KnownValue("S1", Cadence) # KnownValue("S1", 4 * Cadence)
    /\ OutAt("S1", 2 * Cadence) # {} /\ OutCell("S1", 2 * Cadence) # <<>>
    /\ OutAt("S1", 3 * Cadence) # {} /\ OutCell("S1", 3 * Cadence) # <<>>

\* C16: every sample with a valid timestamp on its group's grid has exactly
\* one output row at that timestamp and, when it carries a KPI value, the
\* row holds that value unchanged; a sample whose timestamp lies between
\* grid slots has no output row at its timestamp.
C16_SamplesKeptOnGridOnly ==
    Resampled =>
        \A i \in DOMAIN df.rows :
            df.rows[i]["timestamp"] # <<>> =>
                LET name == df.rows[i]["TP"]
                    t == df.rows[i]["timestamp"][1]
                IN  IF t \in Grid(name)
                    THEN /\ Cardinality(OutAt(name, t)) = 1
                         /\ df.rows[i][KPI] # <<>> =>
                               OutCell(name, t) = df.rows[i][KPI]
                    ELSE OutAt(name, t) = {}

\* A group with a sample between grid slots that carries a value, a sample
\* on the grid whose value differs from the known value one slot before it,
\* and a slot that the fill steps wrote
C16_Witness ==
    /\ Resampled
    /\ \E i \in DOMAIN df.rows :
          /\ df.rows[i]["TP"] = "S1"
          /\ df.rows[i]["timestamp"] # <<>>
          /\ df.rows[i]["timestamp"][1] \notin Grid("S1")
          /\ df.rows[i][KPI] # <<>>
    /\ \E t \in Grid("S1") :
          /\ KnownAt("S1", t) /\ KnownAt("S1", t - Cadence)
          /\ KnownValue("S1", t) # KnownValue("S1", t - Cadence)
          /\ OutCell("S1", t) = <<KnownValue("S1", t)>>
    /\ \E t \in Grid("S1") : ~KnownAt("S1", t) /\ OutCell("S1", t) # <<>>

\* C13: for every table with the timestamp and group columns the call
\* returns a table: no output row has a missing timestamp, a group without a
\* valid timestamp has no output row, and a group with repeated timestamps
\* has one row per grid slot.
C13_RecoversFromMalformedRows ==
    pc = "resampled" =>
        /\ resampled.raised = ""
        /\ \A j \in DOMAIN resampled.rows : resampled.rows[j]["timestamp"] # <<>>
        /\ \A name \in GroupNames :
              IF Observed(name) = {}
              THEN \A j \in DOMAIN resampled.rows : resampled.rows[j]["TP"] # name
              ELSE \A t \in Grid(name) : Cardinality(OutAt(name, t)) = 1

----------------------------------------------------------------------------
(* The gap detector applied to a table of samples *)

GapInit ==
    /\ pc = "gaps"
    /\ IsSeriesTable(df)
    /\ baselines = EmptyFrame
    /\ osnr_min = NaN
    /\ recs = <<>>
    /\ resampled = <<>>
    /\ gaps = <<>>
    /\ files = <<>>
    /\ stages = <<>>
    /\ raised = ""

DetectMissingTimestamps ==
    /\ pc = "gaps"
    /\ gaps' = detect_missing_timestamps(df, Cadence)
    /\ pc' = "gapped"
    /\ UNCHANGED <<df, baselines, osnr_min, recs, resampled, files, stages, raised>>

GapNext == DetectMissingTimestamps

SpecGaps == GapInit /\ [][GapNext]_vars

----------------------------------------------------------------------------
(* Claims about the gap detector, stated on the input table df and the      *)
(* output rows gaps                                                         *)

GapRowsOf(name) == {j \in DOMAIN gaps : gaps[j].group = name}

\* C9: a group with at most one distinct valid timestamp (none or one)
\* produces no output row.
C9_SparseGroupsExcluded ==
    pc = "gapped" =>
        \A name \in GroupNames :
            Cardinality(Observed(name)) <= 1 => GapRowsOf(name) = {}

\* C10: for every reported group, expected_count is the number of grid slots
\* from its first to its last timestamp, observed_count the number of its
\* distinct valid timestamps, missing_count their difference; a group whose
\* samples are spaced exactly one cadence apart has missing_count 0.
C10_GapCounts ==
    pc = "gapped" =>
        \A j \in DOMAIN gaps :
            LET name == gaps[j].group
                obs == Observed(name)
            IN  /\ obs # {}
                /\ gaps[j].expected_count = Cardinality(Grid(name))
                /\ gaps[j].observed_count = Cardinality(obs)
                /\ gaps[j].missing_count =
                      gaps[j].expected_count - gaps[j].observed_count
                /\ obs = Grid(name) => gaps[j].missing_count = 0

\* A run that reports a group of three samples one cadence apart, one of them
\* repeated, with no slot missing
C10_Witness ==
    /\ pc = "gapped"
    /\ \E j \in DOMAIN gaps :
          /\ gaps[j].group = "S1"
          /\ Observed("S1") = {0, Cadence, 2 * Cadence}
          /\ \E i, k \in DOMAIN df.rows :
                i # k /\ df.rows[i]["timestamp"] = df.rows[k]["timestamp"]
          /\ gaps[j].expected_count = 3
          /\ gaps[j].missing_count = 0

\* C15: for every reported group, missing_count is the number of grid slots
\* (first + k * cadence within [first, last]) at which the group has no
\* sample, so 0 <= missing_count <= expected_count, also when timestamps of
\* the group lie between slots.
C15_MissingCountsEmptySlots ==
    pc = "gapped" =>
        \A j \in DOMAIN gaps :
            LET name == gaps[j].group
                obs == Observed(name)
            IN  /\ gaps[j].missing_count =
                      Cardinality({t \in Grid(name) : t \notin obs})
                /\ 0 <= gaps[j].missing_count
                /\ gaps[j].missing_count <= gaps[j].expected_count

----------------------------------------------------------------------------
(* main.py: run, one action per stage it calls.  The input file holds a     *)
(* Time column, the group key TP and the Q-factor column, one of the first  *)
(* two possibly absent; a column NE is never present.  stages lists the     *)
(* functions called so far, raised the exception that ended the run.        *)

\* No exception, and KeyError(key) as the pair of its type and its argument
NoError == <<>>

KeyError(key) == <<"KeyError", key>>

MaxCsvRows == 2

\* Raw Q-factor fields: "NS", "-99.95", "-99.9", "-40.0", "", "12.5", "x"
QTokens ==
    { <<"N", "S">>, <<"-", "9", "9", ".", "9", "5">>, <<"-", "9", "9", ".", "9">>,
      <<"-", "4", "0", ".", "0">>, <<>>, <<"1", "2", ".", "5">>, <<"x">> }

FileColumnSets == {{"Time", "TP", KPI}, {"TP", KPI}, {"Time", KPI}}

\* A file of n rows; the Time field of row i is the instant of slot i - 1, or
\* a text that is not a time
MkFile(cols, n, q, tp, tm) ==
    [columns |-> cols,
     rows |-> [i \in 1..n |->
                 [c \in cols |->
                     CASE c = KPI -> q[i]
                       [] c = "TP" -> tp[i]
                       [] c = "Time" -> IF tm[i] THEN Num((i - 1) * Cadence)
                                        ELSE Str(<<"?">>)]]]

RunInit ==
    /\ pc = "load"
    /\ \E cols \in FileColumnSets, n \in 0..MaxCsvRows :
          \E q \in [1..n -> QTokens], tp \in [1..n -> Spans],
             tm \in [1..n -> BOOLEAN] :
              files \in {<<>>, <<MkFile(cols, n, q, tp, tm)>>}
    /\ df = EmptyFrame
    /\ baselines = EmptyFrame
    /\ osnr_min = Num(OSNR_MIN)
    /\ recs = <<>>
    /\ resampled = <<>>
    /\ gaps = <<>>
    /\ stages = <<>>
    /\ raised = NoError

\* group_by = ["TP"] if "TP" in df.columns else ["NE"]
group_by(d) == IF "TP" \in d.columns THEN "TP" ELSE "NE"

\* df = load_csv_files(paths)
RunLoad ==
    /\ pc = "load"
    /\ df' = load_csv_files(files)
    /\ stages' = Append(stages, "load_csv_files")
    /\ pc' = "cast"
    /\ UNCHANGED <<baselines, osnr_min, recs, resampled, gaps, files, raised>>

\* df = cast_numeric(df)
RunCast ==
    /\ pc = "cast"
    /\ df' = cast_numeric(df)
    /\ stages' = Append(stages, "cast_numeric")
    /\ pc' = "time_range"
    /\ UNCHANGED <<baselines, osnr_min, recs, resampled, gaps, files, raised>>

\* infer_kpis_present and compute_time_range; df["timestamp"] raises KeyError
\* on a frame without that column
RunTimeRange ==
    /\ pc = "time_range"
    /\ stages' = Append(stages, "compute_time_range")
    /\ IF "timestamp" \in df.columns
       THEN pc' = "missing" /\ raised' = raised
       ELSE pc' = "failed" /\ raised' = KeyError("timestamp")
    /\ UNCHANGED <<df, baselines, osnr_min, recs, resampled, gaps, files>>

\* missing = detect_missing_timestamps(df, group_by); df.groupby raises
\* KeyError for a key that is not a column
RunMissing ==
    /\ pc = "missing"
    /\ stages' = Append(stages, "detect_missing_timestamps")
    /\ IF group_by(df) \in df.columns
       THEN /\ gaps' = detect_missing_timestamps(df, Cadence)
            /\ pc' = "summarize"
            /\ raised' = raised
       ELSE /\ gaps' = gaps
            /\ pc' = "failed"
            /\ raised' = KeyError(group_by(df))
    /\ UNCHANGED <<df, baselines, osnr_min, recs, resampled, files>>

\* summarize_by_span, build_thresholds, evaluate_thresholds: their results
\* go to the exports only (no default threshold has a "min" or "max" for the
\* Q-factor, so there is no alert)
RunSummaries ==
    /\ pc = "summarize"
    /\ stages' = stages \o <<"summarize_by_span", "evaluate_thresholds">>
    /\ pc' = "baselines"
    /\ UNCHANGED <<df, baselines, osnr_min, recs, resampled, gaps, files, raised>>

\* baselines = compute_baselines(df, span_key=group_by[0])
RunBaselines ==
    /\ pc = "baselines"
    /\ baselines' = compute_baselines(df, group_by(df))
    /\ stages' = Append(stages, "compute_baselines")
    /\ pc' = "detect_run"
    /\ UNCHANGED <<df, osnr_min, recs, resampled, gaps, files, raised>>

\* anomalies_df = detect_anomalies_baseline(df, baselines, ...)
RunDetect ==
    /\ pc = "detect_run"
    /\ recs' = detect_anomalies_baseline(df, baselines, group_by(df), osnr_min)
    /\ stages' = Append(stages, "detect_anomalies_baseline")
    /\ pc' = "export"
    /\ UNCHANGED <<df, baselines, osnr_min, resampled, gaps, files, raised>>

\* The exports: the summary, the span summary, and the anomaly records when
\* there are any
RunExport ==
    /\ pc = "export"
    /\ stages' = stages \o <<"write_json_summary", "write_csv:span_summary">>
                   \o (IF recs # <<>> THEN <<"write_csv:anomalies">> ELSE <<>>)
    /\ pc' = "finish"
    /\ UNCHANGED <<df, baselines, osnr_min, recs, resampled, gaps, files, raised>>

\* The dashboard (inside try/except), the Prometheus file, and return 0
RunFinish ==
    /\ pc = "finish"
    /\ stages' = Append(stages, "return 0")
    /\ pc' = "done"
    /\ UNCHANGED <<df, baselines, osnr_min, recs, resampled, gaps, files, raised>>

RunNext ==
    \/ RunLoad
    \/ RunCast
    \/ RunTimeRange
    \/ RunMissing
    \/ RunSummaries
    \/ RunBaselines
    \/ RunDetect
    \/ RunExport
    \/ RunFinish

SpecRun == RunInit /\ [][RunNext]_vars

----------------------------------------------------------------------------
(* Claims about the run *)

\* The sentinel tokens "NS", "-99.95", "-99.9", "-40.0" and ""
SentinelSet ==
    { <<"N", "S">>, <<"-", "9", "9", ".", "9", "5">>, <<"-", "9", "9", ".", "9">>,
      <<"-", "4", "0", ".", "0">>, <<>> }

\* C11: after the sentinel replacement of the load and cast_numeric, every
\* KPI field whose raw token is in the sentinel set, or is not a decimal
\* literal, is missing in the table (not a number such as -99.95), and the
\* two stages have not raised.
C11_SentinelsBecomeMissing ==
    (pc = "time_range" /\ files # <<>>) =>
        /\ raised = NoError
        /\ \A i \in DOMAIN files[1].rows :
              LET tok == files[1].rows[i][KPI]
              IN  (tok \in SentinelSet \/ ParseDecimal(tok) = NaN)
                     => df.rows[i][KPI] = NaN

\* C12: a run over a file that lacks a required column (the time column, or
\* the group key) does not complete: it ends in an error, and the error names
\* a column the file lacks.
C12_MissingColumnIsFatal ==
    \A k \in DOMAIN files :
        /\ pc = "done" =>
              /\ "Time" \in files[k].columns
              /\ files[k].columns \cap {"TP", "NE"} # {}
        /\ pc = "failed" =>
              /\ raised # NoError
              /\ raised[2] \notin files[k].columns

\* The positions of a function in the list of calls of the run
Calls(f) == {k \in DOMAIN stages : stages[k] = f}

\* C14: in every completed run the stages are called in the order numeric
\* coercion (cast_numeric), temporal resampler (resample_group), baseline
\* estimator (compute_baselines), deviation detector
\* (detect_anomalies_baseline), and the anomaly records are exported only
\* after the detector.
C14_StageOrder ==
    pc = "done" =>
        /\ \E a \in Calls("cast_numeric"), b \in Calls("resample_group"),
              c \in Calls("compute_baselines"),
              d \in Calls("detect_anomalies_baseline") :
                a < b /\ b < c /\ c < d
        /\ \A x \in Calls("write_csv:anomalies") :
              \E d \in Calls("detect_anomalies_baseline") : d < x

====
